---- MODULE Spec2Model ----
(***************************************************************************)
(* The session connection manager of frontend/app/main.tsx: the module     *)
(* level WebSocket singleton, the mount effect of App with its closure     *)
(* (ws, reconnectTimer, connectWebSocket and the four listeners), the      *)
(* effect cleanup, the reconnect timers and the inbound message handler.   *)
(*                                                                         *)
(* One component instance (App is rendered once at the root); its state    *)
(* (user, account, overview) and wsRef persist over effect re-runs, as in  *)
(* a development-mode remount.  Every run of the effect has its own        *)
(* closure: eff[e] holds the variables `ws` and `reconnectTimer` of run e. *)
(***************************************************************************)
EXTENDS Integers, Sequences, FiniteSets, TLC

\* ------------------------------------------------------------- bounds
MaxMounts == 2
MaxAttempts == 3
MaxFrames == 2
MaxIntents == 1

\* ------------------------------------------------- program constants
CloseDelay == 3000
CatchDelay == 5000
NormalClosure == 1000
GoingAway == 1001
AbnormalClosure == 1006

Null == 0

VARIABLES
    WS_SINGLETON,   \* module-level singleton: a connection id or Null
    wsRef,          \* wsRef.current
    user,           \* useState user
    account,        \* useState account
    overview,       \* useState overview
    eff,            \* the closures of the effect runs: [ws, reconnectTimer]
    mounted,        \* the effect run whose cleanup has not run yet, or 0
    conns,          \* every WebSocket created: [readyState, owner, sent, code]
    timers,         \* every setTimeout made: [eff, delay, by, st]
    toasts,         \* notifications emitted
    nframes,        \* inbound frames delivered so far
    received,       \* the latest MessageEvent delivered, << >> before the first
    view,           \* what App last rendered: the placeholder or the interface
    nintents,       \* calls of switchUser and handleAccountUpdated so far
    ready,          \* the connections a bootstrap_ok has arrived on
    answered,       \* per connection, the outbound messages the server answered
    location,       \* window.location of the page, or the record of no window
    tbl,            \* one paginated table of TradingDataView: its state and requests
    chart           \* BalanceChartView: its state and requests

vars == <<WS_SINGLETON, wsRef, user, account, overview, eff, mounted, conns,
          timers, toasts, nframes, received, view, nintents, ready, answered,
          location,
                   tbl, chart>>

session == <<user, account, overview>>

\* what the handlers of the effect do not write
observed == <<nframes, received, view, nintents, ready, answered, location,
                   tbl, chart>>

ConnIds == 1..Len(conns)
EffIds == 1..Len(eff)
TimerIds == 1..Len(timers)

ReadyStates == {"CONNECTING", "OPEN", "CLOSING", "CLOSED"}

Live(c) == conns[c].readyState \in {"CONNECTING", "OPEN"}

LiveConns == {c \in ConnIds : Live(c)}

PendingTimers == {t \in TimerIds : timers[t].st = "pending"}

\* ------------------------------------------------------------ frames
Absent == "absent"

Frame(ok, type, u, a, o, m) ==
    [ok |-> ok, type |-> type, user |-> u, account |-> a, overview |-> o,
     message |-> m]

Frames ==
    {Frame(FALSE, Absent, Absent, Absent, Absent, Absent)}
    \cup {Frame(TRUE, "bootstrap_ok", u, a, Absent, Absent) :
            u \in {Absent, "u1"}, a \in {Absent, "a1"}}
    \cup {Frame(TRUE, "snapshot", Absent, Absent, o, Absent) :
            o \in {Absent, "o1", "o2"}}
    \cup {Frame(TRUE, t, Absent, Absent, Absent, Absent) :
            t \in {"order_filled", "order_pending", "noop"}}
    \cup {Frame(TRUE, "user_switched", u, Absent, Absent, Absent) :
            u \in {Absent, "u2"}}
    \cup {Frame(TRUE, "account_switched", Absent, a, Absent, Absent) :
            a \in {Absent, "a2"}}
    \cup {Frame(TRUE, "error", Absent, Absent, Absent, m) :
            m \in {Absent, "boom"}}

\* ------------------------------------------------------ resolveWsUrl
\* window.location.host: the hostname, and the port when the URL names one
Host(loc) ==
    IF loc.port = "" THEN loc.hostname ELSE loc.hostname \o ":" \o loc.port

LocalEndpoint == "ws://localhost:5611/ws"

\* resolveWsUrl that tests location.host, which carries the port
resolveWsUrlByHost(loc) ==
    IF ~loc.window THEN LocalEndpoint
    ELSE IF Host(loc) = "localhost" \/ Host(loc) = "127.0.0.1"
         THEN LocalEndpoint
         ELSE (IF loc.protocol = "https:" THEN "wss:" ELSE "ws:")
              \o "//" \o Host(loc) \o "/ws"

\* lines 9-20: resolveWsUrl
resolveWsUrl(loc) ==
    IF ~loc.window THEN LocalEndpoint
    ELSE IF loc.hostname = "localhost" \/ loc.hostname = "127.0.0.1"
         THEN LocalEndpoint
         ELSE (IF loc.protocol = "https:" THEN "wss:" ELSE "ws:")
              \o "//" \o Host(loc) \o "/ws"

\* the pages the module may be loaded in
Hostnames ==
    {"localhost", "127.0.0.1", "example.com", "trade.example.org",
     "192.168.1.5", "localhost.example.com"}

Ports == {"", "3000", "5611"}

Protocols == {"http:", "https:", "file:"}

NoWindow == [window |-> FALSE, hostname |-> "", port |-> "", protocol |-> ""]

Locations ==
    {NoWindow} \cup
    {[window |-> TRUE, hostname |-> h, port |-> p, protocol |-> s] :
        h \in Hostnames, p \in Ports, s \in Protocols}

\* ---------------------------------------------------------- helpers
\* WebSocket.send: transmits on an OPEN socket, throws on a CONNECTING
\* one, and silently discards on a CLOSING or CLOSED one.
Send(C, target, msg) ==
    IF C[target].readyState = "OPEN"
    THEN [C EXCEPT ![target].sent = Append(@, msg)]
    ELSE C

\* Created with the CONNECTING case forgotten: only an OPEN singleton is reused
CreatedUnlessOpen(ws) ==
    \/ ws = Null
    \/ conns[ws].readyState # "OPEN"

\* line 71: const created = !ws || ws.readyState === CLOSING || CLOSED
Created(ws) ==
    \/ ws = Null
    \/ conns[ws].readyState \in {"CLOSING", "CLOSED"}

\* ShouldReconnect with a retry limit of one reconnect
ShouldReconnectOnce(code) ==
    /\ code # NormalClosure /\ code # GoingAway
    /\ \A t \in TimerIds : timers[t].by = Null

\* ShouldReconnect that retries only on the codes a server sends
ShouldReconnectOnServerCode(code) ==
    code \notin {NormalClosure, GoingAway, AbnormalClosure}

\* line 138: event.code !== 1000 && event.code !== 1001
ShouldReconnect(code) == code # NormalClosure /\ code # GoingAway

CloseCodes == {NormalClosure, GoingAway, AbnormalClosure}

\* timers[t].by is the connection whose close event made the timer, or Null
\* for a timer made by the catch block of connectWebSocket
FailCount == Cardinality({t \in TimerIds : timers[t].by = Null})

\* the calls of connectWebSocket so far: each made a connection or threw
Attempts == Len(conns) + FailCount

\* clearTimeout(id): cancels a pending timer, and is a no-op otherwise
ClearTimeout(T, id) ==
    IF id # Null /\ T[id].st = "pending"
    THEN [T EXCEPT ![id].st = "cleared"]
    ELSE T

\* ---------------------------------------------------------------------
\* components/portfolio/TradingDataView.tsx: a paginated table.  The four
\* tables (AIDecisionsTable, PositionsTable, OrdersTable, TradesTable)
\* share this code; the lines named are those of AIDecisionsTable.

\* line 69: useState(20), never set
PageSize == 20

\* fetches one table issues, and the most pages the server reports
MaxFetches == 3
MaxPages == 2

\* the values of the accountId prop
AccountIds == {1, 2}

\* line 66: useState(null); total_pages reads as 0 through line 89
NoData == [req |-> 0, total_pages |-> 0]

\* lines 66-69: the state of a table before it mounts; reqs is every call of
\* getXPaginated made, in the order made, with the state of its promise
TableInit ==
    [mounted |-> FALSE, accountId |-> 1, page |-> 1, data |-> NoData,
     loading |-> FALSE, deps |-> <<>>, reqs |-> <<>>, toasts |-> 0]

\* lines 72-75: loadData up to its await: setLoading(true) and the request
\* with the accountId and page of the render that made the closure
TableLoadData(T) ==
    [T EXCEPT !.loading = TRUE,
              !.reqs = Append(@, [account_id |-> T.accountId,
                                  page |-> T.page,
                                  page_size |-> PageSize,
                                  st |-> "pending"])]

\* lines 75-76 and 80-82: request r resolved: setData(result), then finally
TableResolved(T, r, total) ==
    [T EXCEPT !.data = [req |-> r, total_pages |-> total],
              !.loading = FALSE,
              !.reqs[r].st = "ok"]

\* a catch that also drops the displayed data
TableRejectedClearing(T, r) ==
    [T EXCEPT !.toasts = @ + 1,
              !.data = NoData,
              !.loading = FALSE,
              !.reqs[r].st = "failed"]

\* lines 77-82: request r rejected: the catch toasts once, then finally
TableRejected(T, r) ==
    [T EXCEPT !.toasts = @ + 1,
              !.loading = FALSE,
              !.reqs[r].st = "failed"]

\* a dependency array without accountId
TableDepsPageOnly(T) == <<T.page, PageSize>>

\* line 87: the dependency array [accountId, page, pageSize]
TableDeps(T) == <<T.accountId, T.page, PageSize>>

\* lines 85-87: useEffect runs loadData after the first render and after a
\* render whose dependencies differ from those of the previous run
TableEffect(T) ==
    IF T.deps # <<TableDeps(T)>>
    THEN TableLoadData([T EXCEPT !.deps = <<TableDeps(T)>>])
    ELSE T

\* line 89: data?.total_pages || 0
totalPages(T) == T.data.total_pages

Buttons == {"first", "previous", "next", "last"}

\* lines 504, 513, 522, 531: the disabled attribute of each button
Disabled(T, b) ==
    IF b \in {"first", "previous"}
    THEN T.page = 1 \/ T.loading
    ELSE T.page >= totalPages(T) \/ T.loading

\* lines 503, 512, 521, 530: the argument each button gives onPageChange
onPageChange(T, b) ==
    CASE b = "first" -> 1
      [] b = "previous" -> T.page - 1
      [] b = "next" -> T.page + 1
      [] b = "last" -> totalPages(T)

\* what the table and the chart do not write
app == <<WS_SINGLETON, wsRef, user, account, overview, eff, mounted, conns,
         timers, toasts, nframes, received, view, nintents, ready, answered,
         location>>

\* the table mounts with accountId a: first render, then the effect
TableMount(a) ==
    /\ ~tbl.mounted
    /\ tbl' = TableEffect([tbl EXCEPT !.mounted = TRUE, !.accountId = a])
    /\ UNCHANGED <<app, chart>>

\* the parent renders the table with accountId a (the same or another)
TableProps(a) ==
    /\ tbl.mounted
    /\ tbl' = TableEffect([tbl EXCEPT !.accountId = a])
    /\ Len(tbl'.reqs) <= MaxFetches
    /\ UNCHANGED <<app, chart>>

\* a click on an enabled pagination button: setPage, render, effect
TableClick(b) ==
    /\ tbl.mounted
    /\ ~Disabled(tbl, b)
    /\ tbl' = TableEffect([tbl EXCEPT !.page = onPageChange(tbl, b)])
    /\ Len(tbl'.reqs) <= MaxFetches
    /\ UNCHANGED <<app, chart>>

\* the promise of request r resolves with a page of a list of total pages;
\* the render that follows leaves the dependencies as they were
TableFetchResolved(r, total) ==
    /\ r \in 1..Len(tbl.reqs)
    /\ tbl.reqs[r].st = "pending"
    /\ tbl' = TableEffect(TableResolved(tbl, r, total))
    /\ UNCHANGED <<app, chart>>

\* the promise of request r rejects
TableFetchRejected(r) ==
    /\ r \in 1..Len(tbl.reqs)
    /\ tbl.reqs[r].st = "pending"
    /\ tbl' = TableEffect(TableRejected(tbl, r))
    /\ UNCHANGED <<app, chart>>

\* ---------------------------------------------------------------------
\* components/portfolio/BalanceChartView (src/unnamed/part_000)

\* line 65: limit: 100
Limit == 100

\* calls of getBalanceHistory one chart makes
MaxLoads == 3

TimeRanges == {"24h", "1w"}
Intervals == {"6m", "1h"}

\* the values of next_end_time a response carries when it has more
Times == {1, 2}

\* a response of getBalanceHistory as far as loadData reads it: has_more and
\* next_end_time (Null when there is nothing older); its points are named
\* by the request that fetched them
Results ==
    {[has_more |-> TRUE, next_end_time |-> t] : t \in Times}
        \cup {[has_more |-> FALSE, next_end_time |-> Null]}

\* lines 38-43: the state of the chart before it mounts; Null is undefined.
\* reqs is every call of getBalanceHistory, in the order made; latest is the
\* next_end_time of the response that arrived last
ChartInit ==
    [mounted |-> FALSE, accountId |-> 1, timeRange |-> "24h",
     interval |-> "6m", data |-> <<>>, loading |-> FALSE, hasMore |-> FALSE,
     endTime |-> Null, deps |-> <<>>, reqs |-> <<>>, toasts |-> 0,
     latest |-> Null]

\* lines 58-66: loadData(append) up to its await
ChartLoadData(T, append) ==
    [T EXCEPT !.loading = TRUE,
              !.reqs = Append(@, [account_id |-> T.accountId,
                                  time_range |-> T.timeRange,
                                  interval |-> T.interval,
                                  end_time |-> IF append THEN T.endTime
                                               ELSE Null,
                                  limit |-> Limit,
                                  append |-> append,
                                  st |-> "pending"])]

\* lines 68-86: request r resolved with result
ChartResolved(T, r, result) ==
    [T EXCEPT !.data = IF T.reqs[r].append THEN <<r>> \o @ ELSE <<r>>,
              !.hasMore = result.has_more,
              !.endTime = IF result.next_end_time # Null
                          THEN result.next_end_time ELSE @,
              !.loading = FALSE,
              !.reqs[r].st = "ok",
              !.latest = result.next_end_time]

\* lines 80-86: request r rejected
ChartRejected(T, r) ==
    [T EXCEPT !.toasts = @ + 1,
              !.loading = FALSE,
              !.reqs[r].st = "failed"]

\* line 92: the dependency array [accountId, timeRange, interval]
ChartDeps(T) == <<T.accountId, T.timeRange, T.interval>>

\* lines 89-92: useEffect: setEndTime(undefined), loadData(false)
ChartEffect(T) ==
    IF T.deps # <<ChartDeps(T)>>
    THEN ChartLoadData([T EXCEPT !.deps = <<ChartDeps(T)>>,
                                 !.endTime = Null], FALSE)
    ELSE T

\* lines 94-98
handleLoadMore(T) ==
    IF T.hasMore /\ ~T.loading THEN ChartLoadData(T, TRUE) ELSE T

\* lines 100-103
handleRefresh(T) == ChartLoadData([T EXCEPT !.endTime = Null], FALSE)

\* the chart mounts with accountId a
ChartMount(a) ==
    /\ ~chart.mounted
    /\ chart' = ChartEffect([chart EXCEPT !.mounted = TRUE, !.accountId = a])
    /\ UNCHANGED <<app, tbl>>

\* line 224 of main.tsx: App renders the chart with accountId a
ChartProps(a) ==
    /\ chart.mounted
    /\ chart' = ChartEffect([chart EXCEPT !.accountId = a])
    /\ Len(chart'.reqs) <= MaxLoads
    /\ UNCHANGED <<app, tbl>>

\* lines 203-204: a time-range button, disabled while loading
ClickTimeRange(range) ==
    /\ chart.mounted /\ ~chart.loading
    /\ chart' = ChartEffect([chart EXCEPT !.timeRange = range])
    /\ Len(chart'.reqs) <= MaxLoads
    /\ UNCHANGED <<app, tbl>>

\* lines 221-222: an interval button, disabled while loading
ClickInterval(int) ==
    /\ chart.mounted /\ ~chart.loading
    /\ chart' = ChartEffect([chart EXCEPT !.interval = int])
    /\ Len(chart'.reqs) <= MaxLoads
    /\ UNCHANGED <<app, tbl>>

\* lines 235-236: the Load More button
ClickLoadMore ==
    /\ chart.mounted /\ chart.hasMore /\ ~chart.loading
    /\ chart' = ChartEffect(handleLoadMore(chart))
    /\ Len(chart'.reqs) <= MaxLoads
    /\ UNCHANGED <<app, tbl>>

\* lines 246-247: the refresh button, disabled while loading
ClickRefresh ==
    /\ chart.mounted /\ ~chart.loading
    /\ chart' = ChartEffect(handleRefresh(chart))
    /\ Len(chart'.reqs) <= MaxLoads
    /\ UNCHANGED <<app, tbl>>

\* the promise of request r resolves
ChartFetchResolved(r, result) ==
    /\ r \in 1..Len(chart.reqs)
    /\ chart.reqs[r].st = "pending"
    /\ chart' = ChartEffect(ChartResolved(chart, r, result))
    /\ UNCHANGED <<app, tbl>>

\* the promise of request r rejects
ChartFetchRejected(r) ==
    /\ r \in 1..Len(chart.reqs)
    /\ chart.reqs[r].st = "pending"
    /\ chart' = ChartEffect(ChartRejected(chart, r))
    /\ UNCHANGED <<app, tbl>>

InitAt(loc) ==
    /\ location = loc
    /\ WS_SINGLETON = Null
    /\ wsRef = Null
    /\ user = "null"
    /\ account = "null"
    /\ overview = "null"
    /\ eff = <<>>
    /\ mounted = 0
    /\ conns = <<>>
    /\ timers = <<>>
    /\ toasts = <<>>
    /\ nframes = 0
    /\ received = <<>>
    /\ view = "placeholder"
    /\ nintents = 0
    /\ ready = {}
    /\ answered = [c \in 1..MaxAttempts |-> 0]
    /\ tbl = TableInit
    /\ chart = ChartInit

\* the page as the development server serves it
PageLocation ==
    [window |-> TRUE, hostname |-> "localhost", port |-> "", protocol |-> "http:"]

Init == InitAt(PageLocation)

\* ------------------------------------------------- connectWebSocket
\* lines 73-80 and 152-155: the constructor succeeded.  E and T are the
\* closure table and the timer table the call starts from.
ConnectCreated(e, E, T) ==
    /\ Attempts < MaxAttempts
    /\ conns' = Append(conns, [readyState |-> "CONNECTING", owner |-> e,
                               sent |-> <<>>, code |-> 0,
                               url |-> resolveWsUrl(location)])
    /\ eff' = [E EXCEPT ![e].ws = Len(conns) + 1]
    /\ WS_SINGLETON' = Len(conns) + 1
    /\ wsRef' = Len(conns) + 1
    /\ timers' = T

\* a catch block that does what handleClose does for an abnormal close
ConnectThrewLikeClose(e, E, T) ==
    /\ Attempts < MaxAttempts
    /\ timers' = Append(T, [eff |-> e, delay |-> CloseDelay,
                            by |-> Null, st |-> "pending"])
    /\ eff' = [E EXCEPT ![e].reconnectTimer = Len(T) + 1]
    /\ WS_SINGLETON' = Null
    /\ wsRef' = IF wsRef = E[e].ws THEN Null ELSE wsRef
    /\ UNCHANGED conns

\* lines 163-166: new WebSocket threw; nothing was assigned.
ConnectThrew(e, E, T) ==
    /\ Attempts < MaxAttempts
    /\ timers' = Append(T, [eff |-> e, delay |-> CatchDelay,
                            by |-> Null, st |-> "pending"])
    /\ eff' = [E EXCEPT ![e].reconnectTimer = Len(T) + 1]
    /\ UNCHANGED <<conns, WS_SINGLETON, wsRef>>

connectWebSocket(e, E, T) == ConnectCreated(e, E, T) \/ ConnectThrew(e, E, T)

\* ------------------------------------------------------ the effect
\* lines 68-173: the effect body of run Len(eff)+1
Mount ==
    /\ mounted = 0
    /\ Len(eff) < MaxMounts
    /\ LET e == Len(eff) + 1
           E == Append(eff, [ws |-> WS_SINGLETON, reconnectTimer |-> Null])
       IN  /\ mounted' = e
           /\ IF Created(WS_SINGLETON)
              THEN connectWebSocket(e, E, timers)
              ELSE /\ wsRef' = WS_SINGLETON
                   /\ eff' = E
                   /\ UNCHANGED <<WS_SINGLETON, conns, timers>>
    /\ UNCHANGED <<session, toasts, observed>>

\* a cleanup that also closes the socket of the run: ws.close(1000)
UnmountClosing ==
    /\ mounted # 0
    /\ timers' = ClearTimeout(timers, eff[mounted].reconnectTimer)
    /\ mounted' = 0
    /\ conns' = [c \in ConnIds |->
                    IF c = eff[mounted].ws /\ Live(c)
                    THEN [conns[c] EXCEPT !.readyState = "CLOSING"]
                    ELSE conns[c]]
    /\ UNCHANGED <<WS_SINGLETON, wsRef, session, eff, toasts, observed>>

\* lines 175-179: the effect cleanup of the mounted run
Unmount ==
    /\ mounted # 0
    /\ timers' = ClearTimeout(timers, eff[mounted].reconnectTimer)
    /\ mounted' = 0
    /\ UNCHANGED <<WS_SINGLETON, wsRef, session, eff, conns, toasts, observed>>

\* a state value that passes a JavaScript truth test: neither null nor
\* undefined (the objects of the frames are all truthy)
Truthy(x) == x \notin {"null", "undefined"}

\* ------------------------------------------------------- listeners
Outbound(type, username, capital) ==
    [type |-> type, username |-> username, initial_capital |-> capital]

BootstrapMsg == Outbound("bootstrap", "default", 10000)

GetSnapshotMsg == Outbound("get_snapshot", Absent, 0)

Toast(kind, text) == [kind |-> kind, text |-> text]

\* an open handler that sends through the module singleton
handleOpenViaSingleton(C, e) ==
    IF WS_SINGLETON = Null THEN C ELSE Send(C, WS_SINGLETON, BootstrapMsg)

\* an open handler that asks for the snapshot before it has bootstrapped
handleOpenSnapshotFirst(C, e) ==
    Send(Send(C, eff[e].ws, GetSnapshotMsg), eff[e].ws, BootstrapMsg)

\* lines 81-87: handleOpen of a connection made by closure e; it sends
\* through the closure variable ws.  A throw of send leaves the handler.
handleOpen(C, e) == Send(C, eff[e].ws, BootstrapMsg)

\* the open event of connection c
OpenEvt(c) ==
    /\ conns[c].readyState = "CONNECTING"
    /\ conns' = handleOpen([conns EXCEPT ![c].readyState = "OPEN"],
                           conns[c].owner)
    /\ UNCHANGED <<WS_SINGLETON, wsRef, session, eff, mounted, timers,
                   toasts, observed>>

\* The branches of handleMessage.  S is the record of what the handler can
\* change: [user, account, overview, conns, toasts]; ws is the closure
\* variable the handler sends through.

\* bootstrap_ok that stores the fields and asks for nothing
OnBootstrapOkNoSnapshot(S, ws, f) ==
    [S EXCEPT
        !.user = IF f.user # Absent THEN f.user ELSE @,
        !.account = IF f.account # Absent THEN f.account ELSE @]

\* bootstrap_ok without the two if tests: an absent field is stored
OnBootstrapOkUnguarded(S, ws, f) ==
    [S EXCEPT
        !.user = IF f.user # Absent THEN f.user ELSE "undefined",
        !.account = IF f.account # Absent THEN f.account ELSE "undefined",
        !.conns = Send(@, ws, GetSnapshotMsg)]

\* lines 94-106: bootstrap_ok
OnBootstrapOk(S, ws, f) ==
    [S EXCEPT
        !.user = IF f.user # Absent THEN f.user ELSE @,
        !.account = IF f.account # Absent THEN f.account ELSE @,
        !.conns = Send(@, ws, GetSnapshotMsg)]

\* snapshot that keeps the first overview it received
OnSnapshotFirstWins(S, f) ==
    IF S.overview # "null" THEN S
    ELSE [S EXCEPT
            !.overview = IF f.overview = Absent THEN "undefined"
                         ELSE f.overview]

\* lines 107-109: snapshot; a frame without the field passes undefined
OnSnapshot(S, f) ==
    [S EXCEPT
        !.overview = IF f.overview = Absent THEN "undefined" ELSE f.overview]

\* order_pending without the resynchronisation
OnOrderFilledOnly(S, ws, type) ==
    IF type = "order_filled"
    THEN [S EXCEPT !.toasts = Append(@, Toast("success", "Order filled")),
                   !.conns = Send(@, ws, GetSnapshotMsg)]
    ELSE [S EXCEPT !.toasts = Append(@, Toast("info",
                                        "Order placed, waiting for fill"))]

\* lines 110-115: order_filled and order_pending: the toast, then the send
OnOrder(S, ws, type) ==
    [S EXCEPT
        !.toasts = Append(@, IF type = "order_filled"
                             THEN Toast("success", "Order filled")
                             ELSE Toast("info",
                                        "Order placed, waiting for fill")),
        !.conns = Send(@, ws, GetSnapshotMsg)]

\* user_switched that drops the overview of the previous user
OnUserSwitchedClearing(S, f) ==
    IF f.user = Absent THEN S
    ELSE [S EXCEPT !.toasts = Append(@, Toast("success", f.user)),
                   !.user = f.user,
                   !.overview = "null"]

\* lines 116-121: user_switched and account_switched; msg.user.username
\* (msg.account.name) throws on a frame without the payload, before the
\* toast and the setter, and the catch of line 126 ends the handler
OnUserSwitched(S, f) ==
    IF f.user = Absent THEN S
    ELSE [S EXCEPT !.toasts = Append(@, Toast("success", f.user)),
                   !.user = f.user]

OnAccountSwitched(S, f) ==
    IF f.account = Absent THEN S
    ELSE [S EXCEPT !.toasts = Append(@, Toast("success", f.account)),
                   !.account = f.account]

\* error without the fallback text
OnErrorNoFallback(S, f) ==
    [S EXCEPT
        !.toasts = Append(@, Toast("error", IF f.message # Absent
                                            THEN f.message
                                            ELSE "undefined"))]

\* lines 122-125: error; toast.error(msg.message || 'Order error')
OnError(S, f) ==
    [S EXCEPT
        !.toasts = Append(@, Toast("error", IF f.message # Absent
                                            THEN f.message
                                            ELSE "Order error"))]

\* a final else branch that reports the frame
OnUnknownReported(S, f) ==
    [S EXCEPT !.toasts = Append(@, Toast("error", "Unknown message"))]

\* line 125: no branch matches the type: nothing runs
OnUnknown(S, f) == S

\* lines 89-129: handleMessage of closure e on frame f; the result is the
\* session fields, the connections and the notifications after it.
handleMessage(e, f) ==
    LET S0 == [user |-> user, account |-> account, overview |-> overview,
               conns |-> conns, toasts |-> toasts]
        ws == eff[e].ws
    IN  CASE ~f.ok -> S0
          [] f.ok /\ f.type = "bootstrap_ok" -> OnBootstrapOk(S0, ws, f)
          [] f.ok /\ f.type = "snapshot" -> OnSnapshot(S0, f)
          [] f.ok /\ f.type \in {"order_filled", "order_pending"} ->
                OnOrder(S0, ws, f.type)
          [] f.ok /\ f.type = "user_switched" -> OnUserSwitched(S0, f)
          [] f.ok /\ f.type = "account_switched" -> OnAccountSwitched(S0, f)
          [] f.ok /\ f.type = "error" -> OnError(S0, f)
          [] OTHER -> OnUnknown(S0, f)

\* a render gate that does not wait for the overview
RenderWithoutOverview(u, a, o) ==
    IF ~Truthy(u) \/ ~Truthy(a) THEN "placeholder" ELSE "full"

\* line 203: if (!user || !account || !overview) return the placeholder
Render(u, a, o) ==
    IF ~Truthy(u) \/ ~Truthy(a) \/ ~Truthy(o) THEN "placeholder" ELSE "full"

\* the listener of connection c runs handleMessage on frame f, and App
\* renders again with the state the setters left
Dispatch(c, f) ==
    /\ LET S == handleMessage(conns[c].owner, f)
       IN  /\ user' = S.user
           /\ account' = S.account
           /\ overview' = S.overview
           /\ conns' = S.conns
           /\ toasts' = S.toasts
           /\ view' = Render(S.user, S.account, S.overview)
    /\ received' = <<f>>
    /\ ready' = IF f.ok /\ f.type = "bootstrap_ok" THEN ready \cup {c}
                ELSE ready
    /\ UNCHANGED <<WS_SINGLETON, wsRef, eff, mounted, timers, nintents,
                   location,
                   tbl, chart>>

\* the message event of connection c carrying frame f
MessageEvt(c, f) ==
    /\ conns[c].readyState = "OPEN"
    /\ nframes < MaxFrames
    /\ nframes' = nframes + 1
    /\ Dispatch(c, f)
    /\ UNCHANGED answered

\* the server starts the closing handshake: readyState becomes CLOSING
\* before the close event is delivered
ClosingEvt(c) ==
    /\ conns[c].readyState = "OPEN"
    /\ conns' = [conns EXCEPT ![c].readyState = "CLOSING"]
    /\ UNCHANGED <<WS_SINGLETON, wsRef, session, eff, mounted, timers,
                   toasts, observed>>

\* handleClose with a delay that grows with every retry
handleCloseBackoff(c, e, code) ==
    /\ WS_SINGLETON' = Null
    /\ wsRef' = IF wsRef = eff[e].ws THEN Null ELSE wsRef
    /\ IF ShouldReconnect(code)
       THEN /\ timers' = Append(timers,
                            [eff |-> e, delay |-> CloseDelay * (Len(timers) + 1),
                             by |-> c, st |-> "pending"])
            /\ eff' = [eff EXCEPT ![e].reconnectTimer = Len(timers) + 1]
       ELSE UNCHANGED <<timers, eff>>

\* lines 131-145: handleClose of closure e for the close event of c
handleClose(c, e, code) ==
    /\ WS_SINGLETON' = Null
    /\ wsRef' = IF wsRef = eff[e].ws THEN Null ELSE wsRef
    /\ IF ShouldReconnect(code)
       THEN /\ timers' = Append(timers, [eff |-> e, delay |-> CloseDelay,
                                         by |-> c, st |-> "pending"])
            /\ eff' = [eff EXCEPT ![e].reconnectTimer = Len(timers) + 1]
       ELSE UNCHANGED <<timers, eff>>

\* a connection that fails before it opened closes with 1006
CodesOf(c) ==
    IF conns[c].readyState = "CONNECTING" THEN {AbnormalClosure}
    ELSE CloseCodes

\* the close event of connection c with the given code
CloseEvt(c, code) ==
    /\ conns[c].readyState # "CLOSED"
    /\ code \in CodesOf(c)
    /\ conns' = [conns EXCEPT ![c].readyState = "CLOSED", ![c].code = code]
    /\ handleClose(c, conns[c].owner, code)
    /\ UNCHANGED <<session, mounted, toasts, observed>>

\* lines 147-150: handleError only logs.  The transport fires the error
\* event in the task that fails the connection: readyState is CLOSED, the
\* error event runs handleError, then the close event runs handleClose
\* with code 1006.
ErrorEvt(c) ==
    /\ conns[c].readyState # "CLOSED"
    /\ conns' = [conns EXCEPT ![c].readyState = "CLOSED",
                              ![c].code = AbnormalClosure]
    /\ handleClose(c, conns[c].owner, AbnormalClosure)
    /\ UNCHANGED <<session, mounted, toasts, observed>>

\* lines 140-143 and 165: a pending timer fires and calls the
\* connectWebSocket of the closure that made it
TimerFire(t) ==
    /\ timers[t].st = "pending"
    /\ connectWebSocket(timers[t].eff, eff, [timers EXCEPT ![t].st = "fired"])
    /\ UNCHANGED <<session, mounted, toasts, observed>>

\* ------------------------------------------------------ the intents
SwitchUserMsg(username) == Outbound("switch_user", username, 0)

Usernames == {"alice"}

\* the intents are props of Header and Sidebar, which App renders only
\* past the gate of line 203
IntentGuard ==
    /\ view = "full"
    /\ nintents < MaxIntents

Connected == wsRef # Null /\ conns[wsRef].readyState = "OPEN"

\* switchUser that shows the new user before the server has answered
switchUserOptimistic(username) ==
    /\ IntentGuard
    /\ nintents' = nintents + 1
    /\ IF ~Connected
       THEN /\ toasts' = Append(toasts,
                               Toast("error", "Not connected to server"))
            /\ conns' = conns
            /\ user' = user
       ELSE /\ conns' = Send(conns, wsRef, SwitchUserMsg(username))
            /\ toasts' = Append(toasts, Toast("info", "Switching account..."))
            /\ user' = username
    /\ UNCHANGED <<WS_SINGLETON, wsRef, account, overview, eff, mounted,
                   timers, nframes, received, view, ready, answered, location,
                   tbl, chart>>

\* lines 182-195: switchUser; send on an OPEN socket does not throw, so the
\* catch of line 191 is not entered
switchUser(username) ==
    /\ IntentGuard
    /\ nintents' = nintents + 1
    /\ IF ~Connected
       THEN /\ toasts' = Append(toasts,
                               Toast("error", "Not connected to server"))
            /\ conns' = conns
       ELSE /\ conns' = Send(conns, wsRef, SwitchUserMsg(username))
            /\ toasts' = Append(toasts, Toast("info", "Switching account..."))
    /\ UNCHANGED <<WS_SINGLETON, wsRef, session, eff, mounted, timers,
                   nframes, received, view, ready, answered, location,
                   tbl, chart>>

\* lines 197-201: handleAccountUpdated, the manual refresh
handleAccountUpdated ==
    /\ IntentGuard
    /\ nintents' = nintents + 1
    /\ conns' = IF Connected THEN Send(conns, wsRef, GetSnapshotMsg)
                ELSE conns
    /\ UNCHANGED <<WS_SINGLETON, wsRef, session, eff, mounted, timers,
                   toasts, nframes, received, view, ready, answered, location,
                   tbl, chart>>

Next ==
    \/ Mount
    \/ Unmount
    \/ \E c \in ConnIds : OpenEvt(c)
    \/ \E c \in ConnIds : ErrorEvt(c)
    \/ \E c \in ConnIds : ClosingEvt(c)
    \/ \E c \in ConnIds : \E code \in CloseCodes : CloseEvt(c, code)
    \/ \E t \in TimerIds : TimerFire(t)

Spec == Init /\ [][Next]_vars

\* The protocol on the component as the page runs it: App is rendered once
\* at the root (lines 241-246), so the effect runs once and its cleanup
\* never; the connection opens, receives frames, closes and reconnects.
NextMsg ==
    \/ Len(eff) = 0 /\ Mount
    \/ \E c \in ConnIds : OpenEvt(c)
    \/ \E c \in ConnIds : \E f \in Frames : MessageEvt(c, f)
    \/ \E c \in ConnIds : ErrorEvt(c)
    \/ \E c \in ConnIds : ClosingEvt(c)
    \/ \E c \in ConnIds : \E code \in CloseCodes : CloseEvt(c, code)
    \/ \E t \in TimerIds : TimerFire(t)

SpecMsg == Init /\ [][NextMsg]_vars

\* The page in use: the protocol, and the user acting on the interface
NextUI ==
    \/ Len(eff) = 0 /\ Mount
    \/ \E c \in ConnIds : OpenEvt(c)
    \/ \E c \in ConnIds : \E f \in Frames : MessageEvt(c, f)
    \/ \E c \in ConnIds : ErrorEvt(c)
    \/ \E c \in ConnIds : ClosingEvt(c)
    \/ \E c \in ConnIds : \E code \in CloseCodes : CloseEvt(c, code)
    \/ \E t \in TimerIds : TimerFire(t)
    \/ \E u \in Usernames : switchUser(u)
    \/ handleAccountUpdated

SpecUI == Init /\ [][NextUI]_vars

\* The server of the handshake scenario: it answers a bootstrap with a
\* bootstrap_ok that carries user and account, a get_snapshot with a
\* snapshot, and a switch_user with a user_switched.
Reply(m) ==
    CASE m.type = "bootstrap" ->
            Frame(TRUE, "bootstrap_ok", "u1", "a1", Absent, Absent)
      [] m.type = "get_snapshot" ->
            Frame(TRUE, "snapshot", Absent, Absent, "o1", Absent)
      [] OTHER ->
            Frame(TRUE, "user_switched", "u2", Absent, Absent, Absent)

\* the answer to the oldest unanswered message of connection c arrives
ServerAnswer(c) ==
    /\ conns[c].readyState = "OPEN"
    /\ answered[c] < Len(conns[c].sent)
    /\ Dispatch(c, Reply(conns[c].sent[answered[c] + 1]))
    /\ answered' = [answered EXCEPT ![c] = @ + 1]
    /\ UNCHANGED nframes

\* The page against that server: every frame is an answer, and an open
\* connection with an unanswered message gets its answer.
NextServer ==
    \/ Len(eff) = 0 /\ Mount
    \/ \E c \in ConnIds : OpenEvt(c)
    \/ \E c \in ConnIds : ServerAnswer(c)
    \/ \E c \in ConnIds : ErrorEvt(c)
    \/ \E c \in ConnIds : ClosingEvt(c)
    \/ \E c \in ConnIds : \E code \in CloseCodes : CloseEvt(c, code)
    \/ \E t \in TimerIds : TimerFire(t)

SpecServer ==
    /\ Init
    /\ [][NextServer]_vars
    /\ \A c \in 1..MaxAttempts : WF_vars(c \in ConnIds /\ ServerAnswer(c))

\* The module loaded in any page: the effect runs and its connection opens
InitUrl == \E loc \in Locations : InitAt(loc)

NextUrl ==
    \/ Len(eff) = 0 /\ Mount
    \/ \E c \in ConnIds : OpenEvt(c)

SpecUrl == InitUrl /\ [][NextUrl]_vars

\* the frames of a server that completes the handshake
HandshakeFrames ==
    {Frame(TRUE, "bootstrap_ok", "u1", "a1", Absent, Absent),
     Frame(TRUE, "snapshot", Absent, Absent, "o1", Absent)}

\* the runs of the effect and the calls of connectWebSocket so far, and the
\* number of them a behaviour of the whole life is followed for
Effort == Len(eff) + Attempts

MaxEffort == MaxAttempts + 1

\* The whole life of the component: remounts, connections, the frames of
\* the handshake, and the user acting on the interface
NextLife ==
    \/ Mount /\ Effort' <= MaxEffort
    \/ Unmount
    \/ \E c \in ConnIds : OpenEvt(c)
    \/ \E c \in ConnIds : \E f \in HandshakeFrames : MessageEvt(c, f)
    \/ \E c \in ConnIds : ErrorEvt(c)
    \/ \E c \in ConnIds : ClosingEvt(c)
    \/ \E c \in ConnIds : \E code \in CloseCodes : CloseEvt(c, code)
    \/ \E t \in TimerIds : TimerFire(t) /\ Effort' <= MaxEffort
    \/ \E u \in Usernames : switchUser(u)
    \/ handleAccountUpdated

SpecLife == Init /\ [][NextLife]_vars

\* timers fire once their delay has passed: the event loop runs every
\* pending timer callback
\* the paginated table alone
NextTable ==
    \/ \E a \in AccountIds : TableMount(a)
    \/ \E a \in AccountIds : TableProps(a)
    \/ \E b \in Buttons : TableClick(b)
    \/ \E r \in 1..MaxFetches, total \in 0..MaxPages :
          TableFetchResolved(r, total)
    \/ \E r \in 1..MaxFetches : TableFetchRejected(r)

SpecTable == Init /\ [][NextTable]_vars

\* the balance chart alone
NextChart ==
    \/ \E a \in AccountIds : ChartMount(a)
    \/ \E a \in AccountIds : ChartProps(a)
    \/ \E range \in TimeRanges : ClickTimeRange(range)
    \/ \E int \in Intervals : ClickInterval(int)
    \/ ClickLoadMore
    \/ ClickRefresh
    \/ \E r \in 1..MaxLoads, result \in Results : ChartFetchResolved(r, result)
    \/ \E r \in 1..MaxLoads : ChartFetchRejected(r)

SpecChart == Init /\ [][NextChart]_vars

MaxTimers == MaxAttempts

SpecFair ==
    /\ Init
    /\ [][Next]_vars
    /\ \A t \in 1..MaxTimers : WF_vars(t \in TimerIds /\ TimerFire(t))

TypeOK ==
    /\ WS_SINGLETON \in {Null} \cup ConnIds
    /\ wsRef \in {Null} \cup ConnIds
    /\ mounted \in {0} \cup EffIds
    /\ \A c \in ConnIds : conns[c].readyState \in ReadyStates
    /\ \A c \in ConnIds : conns[c].owner \in EffIds

\* ------------------------------------------------------------ claims
MountStep == mounted = 0 /\ mounted' # 0

UnmountStep == mounted # 0 /\ mounted' = 0

ConnectionCreated == Len(conns') > Len(conns)

Normal(code) == code \in {NormalClosure, GoingAway}

\* C1: at most one connection is CONNECTING or OPEN at any time, and no
\* connection is created while an earlier one has not reached CLOSED.
C1_AtMostOneConnection ==
    /\ [](Cardinality(LiveConns) <= 1)
    /\ [][ConnectionCreated =>
            \A c \in ConnIds : conns[c].readyState = "CLOSED"]_vars

\* C2: a run of the mount effect that finds the singleton CONNECTING or
\* OPEN creates no connection and makes wsRef point to the singleton; a
\* run of the mount effect creates a connection only when the singleton is
\* null, CLOSING or CLOSED.
C2_InitIdempotent ==
    [][MountStep =>
        /\ (WS_SINGLETON # Null /\ Live(WS_SINGLETON)) =>
              /\ conns' = conns
              /\ timers' = timers
              /\ WS_SINGLETON' = WS_SINGLETON
              /\ wsRef' = WS_SINGLETON
        /\ ConnectionCreated =>
              \/ WS_SINGLETON = Null
              \/ conns[WS_SINGLETON].readyState \in {"CLOSING", "CLOSED"}]_vars

\* C2 witness: the second run of the effect has reused the connection that
\* the first run created.
C2_Witness ==
    /\ mounted = 2
    /\ Len(conns) = 1
    /\ Live(1)
    /\ conns[1].owner = 1
    /\ wsRef = 1
    /\ WS_SINGLETON = 1

\* C3: a close with a code other than 1000/1001 schedules exactly one
\* timer and starts no connection itself, a timer that fires makes exactly
\* one connection attempt, and never are two reconnect attempts pending or
\* two connection attempts running at the same time.
C3_OneReconnectPerClose ==
    /\ [][\A c \in ConnIds :
            (CloseEvt(c, AbnormalClosure)) =>
                /\ Len(timers') = Len(timers) + 1
                /\ ~ConnectionCreated]_vars
    /\ [][(\E t \in TimerIds : TimerFire(t)) =>
            Len(conns') <= Len(conns) + 1]_vars
    /\ [](/\ Cardinality(PendingTimers) <= 1
          /\ Cardinality({c \in ConnIds :
                            conns[c].readyState = "CONNECTING"}) <= 1)

\* C4: a close with code 1000 or 1001 schedules no timer and starts no
\* connection, clears the singleton and leaves the manager idle: no
\* connection is live and no reconnect is pending.
C4_NormalCloseIdle ==
    [][\A c \in ConnIds : \A code \in {NormalClosure, GoingAway} :
         CloseEvt(c, code) =>
            /\ timers' = timers
            /\ ~ConnectionCreated
            /\ WS_SINGLETON' = Null
            /\ LiveConns' = {}
            /\ PendingTimers' = {}]_vars

\* C5: at most one reconnect timer is pending in every reachable state.
C5_OneTimerPending == Cardinality(PendingTimers) <= 1

\* C6: in the state right after a connection attempt has started (a
\* connection was created) no reconnect timer is pending.
C6_TimerClearedOnConnect ==
    [][ConnectionCreated => PendingTimers' = {}]_vars

\* C7: every close with a code other than 1000/1001 is eventually followed
\* by the connection attempt of its timer, unless the cleanup of the run
\* cancels that timer; there is no limit on the number of retries (here:
\* up to the bound on the connection attempts of a run of the model).
C7_ReconnectEventually ==
    \A c \in 1..MaxAttempts :
        (c \in ConnIds /\ conns[c].readyState = "CLOSED"
                       /\ ~Normal(conns[c].code))
        ~> \/ \E t \in TimerIds : timers[t].by = c /\ timers[t].st # "pending"
           \/ Attempts = MaxAttempts

\* C7 witness: the reconnect of a second consecutive failure has made its
\* connection attempt.
C7_Witness ==
    /\ Len(conns) >= 3
    /\ \E t1, t2 \in TimerIds :
          /\ timers[t1].by = 1 /\ timers[t1].st = "fired"
          /\ timers[t2].by = 2 /\ timers[t2].st = "fired"
          /\ conns[2].owner = conns[1].owner
          /\ conns[3].owner = conns[1].owner

\* C8: after the cleanup has run, no open, message or close event of a
\* connection sends a message, changes user, account or overview, changes
\* the singleton or schedules a reconnect.
C8_ListenersDetached ==
    [][\A c \in ConnIds :
        (/\ mounted = 0
         /\ \/ OpenEvt(c)
            \/ \E f \in Frames : MessageEvt(c, f)
            \/ \E code \in CloseCodes : CloseEvt(c, code)) =>
            /\ \A d \in ConnIds : conns'[d].sent = conns[d].sent
            /\ session' = session
            /\ WS_SINGLETON' = WS_SINGLETON
            /\ timers' = timers]_vars

\* C9: a timer that is pending when the cleanup runs is cancelled,
\* whichever run of the effect scheduled it: no timer is pending right
\* after the cleanup.
C9_NoTimerAfterTeardown ==
    [][UnmountStep => PendingTimers' = {}]_vars

\* C10 as claimed: the cleanup closes the connection, so that right after
\* it no connection is CONNECTING or OPEN and the singleton names no live
\* connection.
C10_TeardownCloses ==
    [][UnmountStep =>
        /\ LiveConns' = {}
        /\ (WS_SINGLETON' = Null \/ ~Live(WS_SINGLETON)')]_vars

\* C10 amended: the cleanup closes nothing: it leaves every connection,
\* the singleton reference and wsRef as they were, so a CONNECTING or OPEN
\* connection stays live and stays the singleton.
C10_TeardownKeepsConnection ==
    [][UnmountStep =>
        /\ conns' = conns
        /\ WS_SINGLETON' = WS_SINGLETON
        /\ wsRef' = wsRef]_vars

\* C10 witness: the cleanup has run and the singleton is still live.
C10_Witness ==
    /\ mounted = 0
    /\ Len(eff) >= 1
    /\ WS_SINGLETON # Null
    /\ Live(WS_SINGLETON)

\* a step in which new WebSocket threw: the catch block scheduled the timer
\* that is now the last one (it is a timer no close event stands behind)
ThrowStep ==
    /\ Len(timers') = Len(timers) + 1
    /\ timers'[Len(timers')].by = Null

C12_ErrorBeforeOpenRetries ==
    [][/\ \A c \in ConnIds :
             (conns[c].readyState = "CONNECTING" /\ ErrorEvt(c)) =>
                /\ conns'[c].readyState = "CLOSED"
                /\ conns'[c].sent = << >>
                /\ WS_SINGLETON' = Null
                /\ Len(timers') = Len(timers) + 1
                /\ timers'[Len(timers')] =
                      [eff |-> conns[c].owner, delay |-> CloseDelay,
                       by |-> c, st |-> "pending"]
       /\ \A t \in TimerIds :
             TimerFire(t) =>
                /\ Len(conns') + FailCount' = Len(conns) + FailCount + 1
                /\ (ConnectionCreated =>
                       conns'[Len(conns')].readyState = "CONNECTING")]_vars

\* C12 witness: a connection failed before it opened, its reconnect timer
\* fired, and the attempt it made is connecting.
C12_Witness ==
    \E c \in ConnIds, t \in TimerIds, d \in ConnIds :
        /\ conns[c].readyState = "CLOSED"
        /\ conns[c].code = AbnormalClosure
        /\ conns[c].sent = << >>
        /\ timers[t].by = c
        /\ timers[t].st = "fired"
        /\ d > c
        /\ conns[d].readyState = "CONNECTING"

FieldValue(x) == IF x = Absent THEN "undefined" ELSE x

\* the types handleMessage has a branch for
KnownTypes ==
    {"bootstrap_ok", "snapshot", "order_filled", "order_pending",
     "user_switched", "account_switched", "error"}

\* the latest frame delivered is f
Received(f) == received = <<f>>

\* what was sent on connection c, before and after a step, differs by msgs
SentMore(c, msgs) ==
    /\ conns'[c] = [conns[c] EXCEPT !.sent = @ \o msgs]
    /\ \A d \in ConnIds \ {c} : conns'[d] = conns[d]

\* C14: a connection that has opened has sent the bootstrap message
\* (username default, initial_capital 10000) first and exactly once: the open
\* handler sends it and nothing else, and no later message is a bootstrap.
C14_BootstrapOnOpen ==
    /\ [](/\ BootstrapMsg.username = "default"
          /\ BootstrapMsg.initial_capital = 10000
          /\ \A c \in ConnIds :
                /\ conns[c].readyState \in {"OPEN", "CLOSING"} =>
                      Len(conns[c].sent) >= 1
                /\ Len(conns[c].sent) >= 1 => conns[c].sent[1] = BootstrapMsg
                /\ \A i \in 2..Len(conns[c].sent) :
                      conns[c].sent[i].type # "bootstrap")
    /\ [][\A c \in ConnIds :
             OpenEvt(c) => conns'[c].sent = <<BootstrapMsg>>]_vars

\* C14 witness: a connection opened, sent the bootstrap, and its second
\* message is another one.
C14_Witness ==
    \E c \in ConnIds :
        /\ Len(conns[c].sent) >= 2
        /\ conns[c].sent[1] = BootstrapMsg
        /\ conns[c].sent[2] = GetSnapshotMsg

\* C15: a bootstrap_ok frame stores the user and the account it carries, leaves
\* a stored value alone where the frame has no such field, leaves overview
\* alone, and sends one get_snapshot on the connection it arrived on.
C15_BootstrapOk ==
    [][\A c \in ConnIds : \A f \in Frames :
          (f.ok /\ f.type = "bootstrap_ok" /\ MessageEvt(c, f)) =>
             /\ user' = IF f.user # Absent THEN f.user ELSE user
             /\ account' = IF f.account # Absent THEN f.account ELSE account
             /\ overview' = overview
             /\ SentMore(c, <<GetSnapshotMsg>>)
             /\ toasts' = toasts]_vars

\* C15 witness: a bootstrap_ok with only the account arrived after one with
\* both fields: the store holds both and two get_snapshot were sent.
C15_Witness ==
    /\ Received(Frame(TRUE, "bootstrap_ok", Absent, "a1", Absent, Absent))
    /\ user = "u1"
    /\ account = "a1"
    /\ overview = "null"
    /\ \E c \in ConnIds :
          conns[c].sent = <<BootstrapMsg, GetSnapshotMsg, GetSnapshotMsg>>

\* C16: a snapshot frame stores the overview field of the frame as it is,
\* sends nothing and leaves user and account alone; overview changes in no
\* other step, so it is the overview of the latest snapshot frame.
C16_SnapshotOverwrites ==
    /\ [][\A c \in ConnIds : \A f \in Frames :
             (f.ok /\ f.type = "snapshot" /\ MessageEvt(c, f)) =>
                /\ overview' = FieldValue(f.overview)
                /\ user' = user
                /\ account' = account
                /\ conns' = conns
                /\ toasts' = toasts]_vars
    /\ [][overview' # overview =>
             /\ nframes' = nframes + 1
             /\ received'[1].type = "snapshot"]_vars
    /\ [](\A f \in Frames :
             (Received(f) /\ f.type = "snapshot") =>
                overview = FieldValue(f.overview))

\* C16 witness: a second snapshot replaced the overview of the first.
C16_Witness ==
    /\ nframes = 2
    /\ Received(Frame(TRUE, "snapshot", Absent, Absent, "o2", Absent))
    /\ overview = "o2"
    /\ user = "null"

\* C17: an order_filled or order_pending frame sends one get_snapshot on the
\* connection it arrived on, emits one notification, and leaves user, account
\* and overview alone.
C17_OrderResyncs ==
    [][\A c \in ConnIds : \A f \in Frames :
          (f.ok /\ f.type \in {"order_filled", "order_pending"}
                /\ MessageEvt(c, f)) =>
             /\ SentMore(c, <<GetSnapshotMsg>>)
             /\ Len(toasts') = Len(toasts) + 1
             /\ SubSeq(toasts', 1, Len(toasts)) = toasts
             /\ toasts'[Len(toasts')].kind =
                   (IF f.type = "order_filled" THEN "success" ELSE "info")
             /\ session' = session]_vars

\* C17 witness: an order_filled and then an order_pending frame arrived:
\* two notifications and two get_snapshot after the bootstrap.
C17_Witness ==
    /\ Received(Frame(TRUE, "order_pending", Absent, Absent, Absent, Absent))
    /\ Len(toasts) = 2
    /\ toasts[1].kind = "success"
    /\ toasts[2].kind = "info"
    /\ session = <<"null", "null", "null">>
    /\ \E c \in ConnIds :
          conns[c].sent = <<BootstrapMsg, GetSnapshotMsg, GetSnapshotMsg>>

\* a frame that does not parse, or that lacks the payload its type requires
Malformed(f) ==
    \/ ~f.ok
    \/ f.type = "snapshot" /\ f.overview = Absent
    \/ f.type = "user_switched" /\ f.user = Absent
    \/ f.type = "account_switched" /\ f.account = Absent

\* C18: a malformed frame leaves user, account, overview and every
\* connection as they were, and nothing is sent.
C18_MalformedIgnored ==
    [][\A c \in ConnIds : \A f \in Frames :
          (Malformed(f) /\ MessageEvt(c, f)) =>
             /\ session' = session
             /\ conns' = conns
             /\ WS_SINGLETON' = WS_SINGLETON]_vars

\* C19: a frame that parses and has a type without a branch changes no
\* session field, sends nothing, emits no notification and leaves the
\* connection, the singleton and the timers as they were.
C19_UnknownDiscarded ==
    [][\A c \in ConnIds : \A f \in Frames :
          (f.ok /\ f.type \notin KnownTypes /\ MessageEvt(c, f)) =>
             /\ session' = session
             /\ conns' = conns
             /\ toasts' = toasts
             /\ UNCHANGED <<WS_SINGLETON, wsRef, timers, eff, mounted>>]_vars

\* C19 witness: a frame of an unknown type was the only frame delivered and
\* the open connection shows no trace of it.
C19_Witness ==
    /\ nframes = 1
    /\ Received(Frame(TRUE, "noop", Absent, Absent, Absent, Absent))
    /\ toasts = << >>
    /\ session = <<"null", "null", "null">>
    /\ \E c \in ConnIds :
          /\ conns[c].readyState = "OPEN"
          /\ conns[c].sent = <<BootstrapMsg>>
          /\ WS_SINGLETON = c

\* C20: an error frame emits one error notification, with the message of the
\* frame or the fallback text when it has none, sends nothing and changes
\* neither the connections nor user, account or overview.
C20_ErrorNotifies ==
    [][\A c \in ConnIds : \A f \in Frames :
          (f.ok /\ f.type = "error" /\ MessageEvt(c, f)) =>
             /\ toasts' = Append(toasts,
                   Toast("error", IF f.message # Absent THEN f.message
                                  ELSE "Order error"))
             /\ session' = session
             /\ conns' = conns
             /\ UNCHANGED <<WS_SINGLETON, wsRef, timers>>]_vars

\* C20 witness: an error frame with a message and one without have arrived:
\* the notifications carry the message and the fallback.
C20_Witness ==
    /\ Received(Frame(TRUE, "error", Absent, Absent, Absent, Absent))
    /\ toasts = <<Toast("error", "boom"), Toast("error", "Order error")>>
    /\ \E c \in ConnIds :
          /\ conns[c].readyState = "OPEN"
          /\ conns[c].sent = <<BootstrapMsg>>

\* C21: a user_switched frame replaces user by the user of the frame, an
\* account_switched frame replaces account by the account of the frame; each
\* emits one success notification, leaves the other two session fields as
\* they were and sends nothing.
C21_SwitchedReplaces ==
    [][\A c \in ConnIds : \A f \in Frames :
          /\ (f.ok /\ f.type = "user_switched" /\ f.user # Absent
                   /\ MessageEvt(c, f)) =>
                /\ user' = f.user
                /\ account' = account
                /\ overview' = overview
                /\ toasts' = Append(toasts, Toast("success", f.user))
                /\ conns' = conns
          /\ (f.ok /\ f.type = "account_switched" /\ f.account # Absent
                   /\ MessageEvt(c, f)) =>
                /\ account' = f.account
                /\ user' = user
                /\ overview' = overview
                /\ toasts' = Append(toasts, Toast("success", f.account))
                /\ conns' = conns]_vars

\* C21 witness: a user_switched frame arrived after a snapshot: the user is
\* the new one, the overview is still the one of the snapshot, and only
\* the bootstrap was sent.
C21_Witness ==
    /\ Received(Frame(TRUE, "user_switched", "u2", Absent, Absent, Absent))
    /\ user = "u2"
    /\ overview = "o1"
    /\ toasts = <<Toast("success", "u2")>>
    /\ \E c \in ConnIds : conns[c].sent = <<BootstrapMsg>>

\* a step in which the interface called switchUser or handleAccountUpdated
IntentStep == nintents' = nintents + 1

NoneOpen == \A c \in ConnIds : conns[c].readyState # "OPEN"

\* C22: an intent issued while no connection is OPEN transmits nothing and
\* emits the not-connected error notification.
C22_IntentWhileDisconnected ==
    [][(IntentStep /\ NoneOpen) =>
          /\ conns' = conns
          /\ toasts' = Append(toasts,
                              Toast("error", "Not connected to server"))]_vars

\* C23: an intent is sent only on a connection whose own handshake is
\* complete: a step of switchUser or handleAccountUpdated that sends on a
\* connection finds that a bootstrap_ok has arrived on that connection.
C23_NoUseBeforeHandshake ==
    [][\A c \in ConnIds :
          (IntentStep /\ conns'[c].sent # conns[c].sent) => c \in ready]_vars

\* C24: the interface, with its two entry points, is rendered exactly when
\* user, account and overview all hold a value; otherwise the placeholder
\* is; switchUser and handleAccountUpdated are called in no other state.
C24_RenderGate ==
    /\ [](/\ view \in {"full", "placeholder"}
          /\ view = "full" <=>
                \A x \in {user, account, overview} :
                    x \notin {"null", "undefined"})
    /\ [][IntentStep =>
             \A x \in {user, account, overview} :
                 x \notin {"null", "undefined"}]_vars

\* C24 witness: the three fields were filled, the interface was rendered
\* and switchUser was called on it.
C24_Witness ==
    /\ nintents = 1
    /\ view = "full"
    /\ session = <<"u1", "a1", "o2">>
    /\ \E c \in ConnIds : \E u \in Usernames :
          conns[c].sent = <<BootstrapMsg, GetSnapshotMsg, SwitchUserMsg(u)>>

\* a step of the connection life cycle or of the interface: everything
\* but the handling of an inbound message
LifecycleStep ==
    \/ MountStep
    \/ UnmountStep
    \/ IntentStep
    \/ ConnectionCreated
    \/ timers' # timers
    \/ \E c \in ConnIds : conns'[c].readyState # conns[c].readyState

\* C25: user, account and overview change only in a step that handles an
\* inbound message: no mount, teardown, connection creation, open, close,
\* error, timer or intent step changes them.
C25_SessionOnlyByMessages ==
    /\ [][session' # session =>
             /\ nframes' = nframes + 1
             /\ \E f \in Frames : Received(f)']_vars
    /\ [][LifecycleStep => session' = session]_vars

\* C25 witness: the session was filled, the connection it was filled on has
\* closed, a reconnect is live, the effect was torn down and an intent was
\* issued: the session is as the handshake left it.
C25_Witness ==
    /\ session = <<"u1", "a1", "o1">>
    /\ mounted = 0
    /\ nintents = 1
    /\ \E c, d \in ConnIds :
          /\ conns[c].readyState = "CLOSED"
          /\ c \in ready
          /\ d > c
          /\ Live(d)

\* C26: the session is empty until a bootstrap_ok has been handled: as long
\* as no bootstrap_ok has arrived on any connection, user, account and
\* overview are all null, whatever other frames have arrived.
C26_EmptyUntilBootstrapOk ==
    ready = {} => session = <<"null", "null", "null">>

\* C27: against a server that answers the bootstrap with a bootstrap_ok
\* carrying user and account and every get_snapshot with a snapshot, a
\* connection that opens either stops being open or completes its handshake:
\* it has sent the bootstrap and then one get_snapshot, both are answered,
\* user, account and overview are those of the answers, and the interface
\* has replaced the placeholder.
C27_HandshakeCompletes ==
    \A c \in 1..MaxAttempts :
        (c \in ConnIds /\ conns[c].readyState = "OPEN")
        ~> \/ c \in ConnIds /\ conns[c].readyState # "OPEN"
           \/ /\ c \in ConnIds
              /\ conns[c].sent = <<BootstrapMsg, GetSnapshotMsg>>
              /\ answered[c] = 2
              /\ session = <<"u1", "a1", "o1">>
              /\ view = "full"

\* C27 witness: the first connection completed the handshake and the
\* interface is rendered.
C27_Witness ==
    /\ Len(conns) = 1
    /\ conns[1].readyState = "OPEN"
    /\ conns[1].sent = <<BootstrapMsg, GetSnapshotMsg>>
    /\ answered[1] = 2
    /\ received = <<Reply(GetSnapshotMsg)>>
    /\ session = <<"u1", "a1", "o1">>
    /\ view = "full"

\* C29: the URL of every connection is the fixed local endpoint when there
\* is no window or the page hostname is localhost or 127.0.0.1, whatever the
\* port; otherwise it is scheme//host/ws with the host of the page (port
\* included) and the scheme wss: for an https: page and ws: for any other.
C29_ResolveWsUrl ==
    \A c \in ConnIds :
        IF ~location.window \/ location.hostname \in {"localhost", "127.0.0.1"}
        THEN conns[c].url = "ws://localhost:5611/ws"
        ELSE /\ location.protocol = "https:" =>
                  conns[c].url = "wss://" \o Host(location) \o "/ws"
             /\ location.protocol # "https:" =>
                  conns[c].url = "ws://" \o Host(location) \o "/ws"

\* C29 witness: a connection was made from an https page on another host
\* that names a port.
C29_Witness ==
    \E c \in ConnIds :
        /\ location.hostname = "trade.example.org"
        /\ location.protocol = "https:"
        /\ conns[c].url = "wss://trade.example.org:3000/ws"

\* C30: the singleton refers to the live connection: after every step, a
\* connection that is CONNECTING or OPEN is the singleton, and the close
\* event of a connection that is not the singleton leaves the singleton as
\* it was.
C30_SingletonTracksLive ==
    [][/\ \A c \in 1..Len(conns') :
             conns'[c].readyState \in {"CONNECTING", "OPEN"} =>
                WS_SINGLETON' = c
       /\ \A c \in ConnIds :
             (/\ conns[c].readyState # "CLOSED"
              /\ conns'[c].readyState = "CLOSED"
              /\ WS_SINGLETON # c) => WS_SINGLETON' = WS_SINGLETON]_vars

\* C31: a handler sends on the connection whose event it handles: when the
\* open event or a message event of connection c is handled, the variable
\* ws of the closure that listens on c refers to c, the open handler's
\* bootstrap and the message handler's get_snapshot are appended to what c
\* has sent, and no other connection sends.
C31_HandlersSendOnOwnConnection ==
    [][\A c \in ConnIds :
          /\ OpenEvt(c) =>
                /\ eff[conns[c].owner].ws = c
                /\ conns'[c].sent = <<BootstrapMsg>>
                /\ \A d \in ConnIds \ {c} : conns'[d].sent = conns[d].sent
          /\ \A f \in Frames :
                MessageEvt(c, f) =>
                   /\ eff[conns[c].owner].ws = c
                   /\ \A d \in ConnIds \ {c} : conns'[d].sent = conns[d].sent
                   /\ (f.type = "bootstrap_ok") =>
                         conns'[c].sent = Append(conns[c].sent, GetSnapshotMsg)
      ]_vars

\* C31 witness: a closure has reconnected, so its variable ws was
\* reassigned, and its newer connection has sent the bootstrap and the
\* get_snapshot itself while the older one sent only its own bootstrap.
C31_Witness ==
    \E c, d \in ConnIds :
        /\ d < c
        /\ conns[d].owner = conns[c].owner
        /\ conns[d].readyState = "CLOSED"
        /\ conns[d].sent = <<BootstrapMsg>>
        /\ conns[c].sent = <<BootstrapMsg, GetSnapshotMsg>>

\* ---------------------------------------------------------------------
\* Paginated tables

\* the requests of the table whose promise is not settled
InFlight == {r \in 1..Len(tbl.reqs) : tbl.reqs[r].st = "pending"}

\* what request r asked for
Asked(T, r) == <<T.reqs[r].account_id, T.reqs[r].page, T.reqs[r].page_size>>

\* C32: a paginated table issues exactly one fetch, with the current
\* account_id, page and page_size, when it mounts and after every change of
\* its accountId or of its page, and no fetch in any other step.
C32_OneFetchPerChange ==
    [][LET n == Len(tbl.reqs)
           changed == \/ ~tbl.mounted /\ tbl'.mounted
                      \/ tbl'.accountId # tbl.accountId
                      \/ tbl'.page # tbl.page
       IN  /\ \A r \in 1..n : Asked(tbl', r) = Asked(tbl, r)
           /\ IF changed
              THEN /\ Len(tbl'.reqs) = n + 1
                   /\ tbl'.reqs[n + 1] =
                          [account_id |-> tbl'.accountId, page |-> tbl'.page,
                           page_size |-> PageSize, st |-> "pending"]
              ELSE Len(tbl'.reqs) = n
      ]_vars

\* C32 witness: the table has fetched at mount, again after its accountId
\* changed and again after a click moved its page, three fetches in all,
\* and two of them have completed without a further fetch.
C32_Witness ==
    /\ Len(tbl.reqs) = 3
    /\ tbl.reqs[2].account_id # tbl.reqs[1].account_id
    /\ tbl.reqs[2].page = tbl.reqs[1].page
    /\ tbl.reqs[3].account_id = tbl.reqs[2].account_id
    /\ tbl.reqs[3].page # tbl.reqs[2].page
    /\ InFlight = {3}

\* C33: overlapping fetches of a table have no hazard: loading is true
\* exactly while a fetch is in flight, and once every fetch has completed
\* the table shows the result of the request issued last.
C33_LatestRequestWins ==
    /\ tbl.loading <=> InFlight # {}
    /\ (/\ tbl.reqs # <<>>
        /\ InFlight = {}
        /\ tbl.reqs[Len(tbl.reqs)].st = "ok") =>
           tbl.data.req = Len(tbl.reqs)

\* C34: when a fetch of a table fails, exactly one error notification is
\* emitted, the displayed data and the page stay as they were, loading is
\* false afterwards, and no request is issued in its place.
C34_FailedFetchNotifiesOnce ==
    [][\A r \in 1..Len(tbl.reqs) :
          (tbl.reqs[r].st = "pending" /\ tbl'.reqs[r].st = "failed") =>
             /\ tbl'.toasts = tbl.toasts + 1
             /\ tbl'.data = tbl.data
             /\ tbl'.page = tbl.page
             /\ ~tbl'.loading
             /\ Len(tbl'.reqs) = Len(tbl.reqs)
      ]_vars

\* C34 witness: the table shows the first page of a list of several, the
\* fetch of its second page has failed, one notification was emitted, the
\* first page is still displayed and nothing is in flight.
C34_Witness ==
    /\ Len(tbl.reqs) = 2
    /\ tbl.reqs[1].st = "ok"
    /\ tbl.reqs[2].st = "failed"
    /\ tbl.page = 2
    /\ tbl.data = [req |-> 1, total_pages |-> 2]
    /\ tbl.toasts = 1
    /\ ~tbl.loading

\* C35: the page of a table is at least 1 and at most the total_pages of
\* the data the table displays, or 1 when that is less than 1.
C35_PageInRange ==
    /\ tbl.page >= 1
    /\ tbl.page <= (IF totalPages(tbl) > 1 THEN totalPages(tbl) ELSE 1)

\* ---------------------------------------------------------------------
\* Balance chart

\* the requests of the chart whose promise is not settled
Loading == {r \in 1..Len(chart.reqs) : chart.reqs[r].st = "pending"}

\* the step issues a request; Issued is that request
Issues == Len(chart'.reqs) = Len(chart.reqs) + 1
Issued == chart'.reqs[Len(chart'.reqs)]

\* C36: a Load More is issued only when has_more is true and no load is in
\* progress, and asks with end_time equal to the next_end_time of the latest
\* response; its points are put before the series, which is kept in order.
\* A reload (refresh, or a change of account, time range or interval) asks
\* without end_time, and its points replace the series.
C36_BackwardPagination ==
    [][/\ ClickLoadMore =>
             /\ Issues
             /\ chart.hasMore
             /\ Loading = {}
             /\ Issued.end_time = chart.latest
       /\ (Issues /\ ~ClickLoadMore) => Issued.end_time = Null
       /\ \A r \in Loading :
             chart'.reqs[r].st = "ok" =>
                IF ClickLoadMore \/ chart.reqs[r].append
                THEN chart'.data = <<r>> \o chart.data
                ELSE chart'.data = <<r>>
      ]_vars

====
